---- MODULE Spec2Model ----
(***************************************************************************)
(* ESP32 Pinhole Camera firmware (src/src/main.cpp) as a state machine.    *)
(*                                                                         *)
(* The program is single threaded: setup() runs once after every reset,    *)
(* then loop() is called over and over.  pc is the position of that one    *)
(* thread; each action is one call the code makes (or one branch of it).   *)
(* A reset or power loss may strike between any two calls; it clears the   *)
(* volatile state and keeps the flash ("EEPROM") and the SD card.          *)
(***************************************************************************)
EXTENDS Integers, Sequences, FiniteSets

\* ------------------------------------------------------------- constants
CtrMod           == 65536     \* uint16_t imageCtr
FLASH_MILLIS     == 200
FAIL_MILLIS      == 1000
WAVE_FLASH_COUNT == 5
SNAP_FLASH_COUNT == 1
CAMI_FLASH_COUNT == 2
SDMI_FLASH_COUNT == 3
SDCI_FLASH_COUNT == 4
AWAKE_MILLIS     == 300000

\* A value passed as a uint8_t parameter
Uint8(x) == x % 256

\* ---------------------------------------------------------------- bounds
MaxClicks  == 3        \* shutter clicks observed over the device's lifetime
MaxResets  == 1        \* resets and power losses over the device's lifetime
TickMillis == 150000   \* time that passes in one step of waiting
MaxNow     == 450000   \* millis() is followed up to here, then stands still
FrameLen   == 2        \* fb->len of every captured frame
MaxFlashCount == 3     \* largest flashCount of a call taken on its own

\* Values of flashLen (a uint8_t) of a call taken on its own
FlashLens == {0, 1, Uint8(FLASH_MILLIS), 255}

\* Values the flash cell at IC_ADDR may hold when the device is first
\* powered: any uint16_t; these are the ones around 0 and around the wrap.
StoredValues == {0, 1, CtrMod - 2, CtrMod - 1}

VARIABLES
  pc,             \* position of the thread of control
  led,            \* level of LED_BUILTIN: "LOW" is lit (active low)
  flashI,         \* flashBuiltinLed: i
  flashCount,     \* flashBuiltinLed: flashCount
  flashLen,       \* flashBuiltinLed: flashLen
  flashRet,       \* flashBuiltinLed: where the call returns to
  fault,          \* flash count of the init-failure loop entered, 0 if none
  fbCount,        \* config.fb_count
  held,           \* frame buffers out of the driver (got, not yet returned)
  fb,             \* loop(): fb is non-null
  imageCtr,       \* the global imageCtr
  eepromBuf,      \* EEPROM's RAM copy of the cell at IC_ADDR
  eeprom,         \* the cell at IC_ADDR in flash
  files,          \* paths of the files on the SD card
  written,        \* those of them whose last write took the whole frame
  file,           \* loop(): path of the open file, NoFile if none
  now,            \* millis()
  clickedMillis,  \* loop(): static clickedMillis
  shutterOn,      \* shutter.begin() was called
  \* history of the run, read by the properties only
  clicks,         \* shutter clicks observed so far
  resets,         \* resets so far
  eeprom0,        \* the cell at IC_ADDR when the device was first powered
  files0,         \* the files on the card when the device was first powered
  preCtr,         \* imageCtr when the current/last transaction started
  preStored,      \* eeprom when the current/last transaction started
  createdLog,     \* paths of the files created, in order of creation
  outcome,        \* how the last finished transaction ended
  txnFlashes,     \* times the LED was lit in the current/last transaction
  storeWrites,    \* writeUShort/commit calls of the current/last transaction
  returned,       \* esp_camera_fb_return calls of the current/last transaction
  txnCreated,     \* files created by the current/last transaction
  sdAfterFlash,   \* the transaction called the SD card after its success flash
  createFails,    \* file creations that failed so far
  wrapEver,       \* ++imageCtr has wrapped from 65535 to 0
  tornEver,       \* a reset struck between a file's creation and its commit
  runC,           \* eeprom when the current run of successes started
  runM,           \* imageCtr when the current run of successes started
  runN,           \* successful transactions in a row so far
  lit,            \* times the LED was lit by the current/last flashBuiltinLed
  readySignals,   \* ready signals (end of setup()) given since the last reset
  failLog         \* failed file creations: <<number, Len(createdLog), resets>>

hw    == <<pc, led, flashI, flashCount, flashLen, flashRet, fault, fbCount, held, fb,
          imageCtr, eepromBuf, eeprom, files, written, file, now,
          clickedMillis, shutterOn>>
hist  == <<clicks, resets, eeprom0, files0, preCtr, preStored, createdLog,
          outcome,
          txnFlashes, storeWrites, returned, txnCreated, sdAfterFlash,
          createFails, wrapEver, tornEver, runC, runM, runN, lit,
          readySignals, failLog>>
vars  == <<hw, hist>>

Min(a, b) == IF a < b THEN a ELSE b

\* Positions of loop() that belong to a Capture Transaction.
TxnPcs == {"fb_get", "path", "open", "write", "writeUShort", "commit",
           "snap_flash", "close", "fb_return"}

InTxn == pc \in TxnPcs \/ (pc = "flash" /\ flashRet = "close")

\* delay(ms).  millis() is read only by loop(); an init-failure loop never
\* gets there, so its clock is not followed.
Delay(ms) == IF fault # 0 THEN now ELSE Min(now + ms, MaxNow)


\* String(++imageCtr): the decimal digits of n, most significant first.
RECURSIVE Digits(_)
Digits(n) == IF n < 10 THEN <<n>> ELSE Append(Digits(n \div 10), n % 10)

\* (mutant) the number is cut to a byte before it is formatted
Path_Byte(n) == Digits(n % 256)

\* "/Image" + String(n) + ".jpg".  Prefix and extension are the same for
\* every file, so a path is told by the digits between them.
Path(n) == Digits(n)

\* The number a path's digits spell.
RECURSIVE Number(_)
Number(p) == IF p = <<>> THEN 0
             ELSE 10 * Number(SubSeq(p, 1, Len(p) - 1)) + p[Len(p)]

NoFile == <<>>

\* What the card may hold when the device is first powered: nothing, or,
\* with the counter close to its wrap, a whole Image1.jpg from the first
\* round of numbering.
CardFiles(stored) ==
  IF stored >= CtrMod - 2 THEN {{}, {Path(1)}} ELSE {{}}

\* flashBuiltinLed's variables and the record of what it has signalled
flashVars == <<led, flashI, flashCount, flashLen, flashRet, lit,
               readySignals>>
camVars   == <<fbCount, held, fb>>
ctrVars   == <<imageCtr, eepromBuf, eeprom>>
sdVars    == <<files, written, file>>
timeVars  == <<now, clickedMillis>>
txnHist   == <<preCtr, preStored, outcome, txnFlashes, storeWrites,
              returned, txnCreated, sdAfterFlash>>
lifeHist  == <<clicks, resets, eeprom0, files0, createdLog, createFails,
              wrapEver,
              tornEver, failLog>>
runHist   == <<runC, runM, runN>>

\* The transaction's success flash is over.
SnapFlashOver == txnFlashes > 0 /\ led = "HIGH"

\* Everything but the position of the program and the arguments of
\* flashBuiltinLed
PowerOn ==
  /\ led = "HIGH"
  /\ flashI = 0
  /\ fault = 0
  /\ fbCount = 0 /\ held = 0 /\ fb = FALSE
  /\ imageCtr = 0
  /\ eepromBuf = 0
  /\ eeprom \in StoredValues
  /\ files \in CardFiles(eeprom) /\ written = files /\ file = NoFile
  /\ now = 0 /\ clickedMillis = 0
  /\ shutterOn = FALSE
  /\ clicks = 0 /\ resets = 0
  /\ eeprom0 = eeprom /\ files0 = files
  /\ preCtr = 0 /\ preStored = 0
  /\ createdLog = <<>>
  /\ outcome = "none"
  /\ txnFlashes = 0 /\ storeWrites = 0 /\ returned = 0 /\ txnCreated = 0
  /\ sdAfterFlash = FALSE
  /\ createFails = 0
  /\ wrapEver = FALSE /\ tornEver = FALSE
  /\ runC = 0 /\ runM = 0 /\ runN = 0
  /\ lit = 0 /\ readySignals = 0
  /\ failLog = <<>>

Init ==
  /\ pc = "setup"
  /\ flashCount = 0 /\ flashLen = 0 /\ flashRet = "none"
  /\ PowerOn

\* flashBuiltinLed(flashCount, flashLen) called on its own, with the LED
\* off as setup() leaves it; after it the device can only be reset.
FlashInit ==
  /\ pc = "flash"
  /\ flashCount \in 0..MaxFlashCount
  /\ flashLen \in FlashLens
  /\ flashRet = "returned"
  /\ PowerOn

\* ------------------------------------------------------ flashBuiltinLed
\* A call flashBuiltinLed(n) (flashLen left at its default) whose return
\* leads to position ret.
CallFlash(n, ret) ==
  /\ pc' = "flash"
  /\ flashI' = 0
  /\ flashCount' = Uint8(n)
  /\ flashLen' = Uint8(FLASH_MILLIS)
  /\ flashRet' = ret
  /\ lit' = 0

\* digitalWrite(LED_BUILTIN, LOW); delay(flashLen);
FlashOn ==
  /\ pc = "flash" /\ led = "HIGH" /\ flashI < flashCount
  /\ led' = "LOW"
  /\ now' = Delay(flashLen)
  /\ lit' = lit + 1
  /\ txnFlashes' = IF InTxn THEN txnFlashes + 1 ELSE txnFlashes
  /\ UNCHANGED <<pc, flashI, flashCount, flashLen, flashRet, readySignals,
                 fault, camVars, ctrVars, sdVars, clickedMillis, shutterOn,
                 lifeHist, runHist, preCtr, preStored, outcome, storeWrites,
                 returned, txnCreated, sdAfterFlash>>

\* digitalWrite(LED_BUILTIN, HIGH); if (i + 1 < flashCount) delay(flashLen); i++
LedOff(gap) ==
  /\ pc = "flash" /\ led = "LOW"
  /\ led' = "HIGH"
  /\ now' = IF gap THEN Delay(flashLen) ELSE now
  /\ flashI' = flashI + 1
  /\ UNCHANGED <<pc, flashCount, flashLen, flashRet, fault, camVars,
                 ctrVars, sdVars, clickedMillis, shutterOn, hist>>

\* (mutant) a gap after the last flash too
FlashOff_TrailingGap == LedOff(TRUE)

FlashOff == LedOff(flashI + 1 < flashCount)

\* i < flashCount is false: the call returns.
FlashReturn ==
  /\ pc = "flash" /\ led = "HIGH" /\ flashI >= flashCount
  /\ pc' = flashRet
  /\ readySignals' = IF flashRet = "loop_init" THEN readySignals + 1
                                               ELSE readySignals
  /\ UNCHANGED <<led, flashI, flashCount, flashLen, flashRet, lit, fault,
                 camVars, ctrVars, sdVars, timeVars, shutterOn, lifeHist,
                 runHist, txnHist>>


\* ----------------------------------------------------------------- setup
\* Serial.begin ... digitalWrite(LED_BUILTIN, HIGH)
Setup ==
  /\ pc = "setup"
  /\ led' = "HIGH"
  /\ pc' = "esp_camera_init"
  /\ UNCHANGED <<flashI, flashCount, flashLen, flashRet, fault, camVars,
                 ctrVars, sdVars, timeVars, shutterOn, hist>>

\* The camera configuration and esp_camera_init(&config).
CameraStage(failed) ==
  /\ pc = "esp_camera_init"
  /\ \E psramFound \in BOOLEAN, ok \in BOOLEAN :
       /\ fbCount' = IF psramFound THEN 2 ELSE 1
       /\ IF ok
            THEN pc' = "SD_MMC_begin" /\ fault' = fault
            ELSE pc' = failed /\ fault' = CAMI_FLASH_COUNT
  /\ UNCHANGED <<flashVars, held, fb, ctrVars, sdVars, timeVars, shutterOn,
                 hist>>

\* (mutant) setup() goes on after a failed esp_camera_init
CameraInit_Unchecked == CameraStage("SD_MMC_begin")

CameraInit == CameraStage("fault_flash")

\* SD_MMC.begin("/sdcard", true)
SdMount ==
  /\ pc = "SD_MMC_begin"
  /\ \E ok \in BOOLEAN :
       IF ok
         THEN pc' = "cardType" /\ fault' = fault
         ELSE pc' = "fault_flash" /\ fault' = SDMI_FLASH_COUNT
  /\ UNCHANGED <<flashVars, camVars, ctrVars, sdVars, timeVars, shutterOn,
                 hist>>

\* SD_MMC.cardType() against CARD_NONE; n flashes per group when there is
\* no card
CardCheck(n) ==
  /\ pc = "cardType"
  /\ \E card \in BOOLEAN :
       IF card
         THEN pc' = "EEPROM_begin" /\ fault' = fault
         ELSE pc' = "fault_flash" /\ fault' = n
  /\ UNCHANGED <<flashVars, camVars, ctrVars, sdVars, timeVars, shutterOn,
                 hist>>

CardType_AsMount == CardCheck(SDMI_FLASH_COUNT)

CardType == CardCheck(SDCI_FLASH_COUNT)

\* while (true) { flashBuiltinLed(n); delay(FAIL_MILLIS); }
FaultFlash ==
  /\ pc = "fault_flash"
  /\ CallFlash(fault, "fault_delay")
  /\ UNCHANGED <<led, readySignals, fault, camVars, ctrVars, sdVars,
                 timeVars, shutterOn, lifeHist, runHist, txnHist>>

FaultDelay ==
  /\ pc = "fault_delay"
  /\ now' = Delay(FAIL_MILLIS)
  /\ pc' = "fault_flash"
  /\ UNCHANGED <<flashVars, fault, camVars, ctrVars, sdVars, clickedMillis,
                 shutterOn, hist>>

\* EEPROM.begin(sizeof((uint16_t)0)): the RAM copy is loaded from flash.
EepromOpen(reset) ==
  /\ pc = "EEPROM_begin"
  /\ eeprom' = IF reset THEN 0 ELSE eeprom
  /\ eepromBuf' = eeprom'
  /\ pc' = "readUShort"
  /\ UNCHANGED <<flashVars, fault, camVars, imageCtr, sdVars, timeVars,
                 shutterOn, hist>>

\* (mutant) with the lines that reset the counter (commented out in the
\* source) compiled in
EepromBegin_ResetCtr == EepromOpen(TRUE)

EepromBegin == EepromOpen(FALSE)

\* The counter is set to v on the way to shutter.begin().
LoadCtr(v) ==
  /\ pc = "readUShort"
  /\ imageCtr' = v
  /\ pc' = "shutter_begin"
  /\ UNCHANGED <<flashVars, fault, camVars, eepromBuf, eeprom, sdVars,
                 timeVars, shutterOn, hist>>

\* (mutant) the counter is not loaded: every session numbers from 0
ReadCtr_NotLoaded == LoadCtr(0)

\* imageCtr = EEPROM.readUShort(IC_ADDR)
ReadCtr == LoadCtr(eepromBuf)

\* shutter.begin()
ShutterBegin ==
  /\ pc = "shutter_begin"
  /\ shutterOn' = TRUE
  /\ pc' = "ready_flash"
  /\ UNCHANGED <<flashVars, fault, camVars, ctrVars, sdVars, timeVars, hist>>

\* flashBuiltinLed() at the end of setup()
ReadyFlash ==
  /\ pc = "ready_flash"
  /\ CallFlash(WAVE_FLASH_COUNT, "loop_init")
  /\ UNCHANGED <<led, readySignals, fault, camVars, ctrVars, sdVars,
                 timeVars, shutterOn, lifeHist, runHist, txnHist>>

\* ------------------------------------------------------------------ loop
\* First call of loop(): static unsigned long clickedMillis = millis()
LoopInit ==
  /\ pc = "loop_init"
  /\ clickedMillis' = now
  /\ pc' = "clicked"
  /\ UNCHANGED <<flashVars, fault, camVars, ctrVars, sdVars, now, shutterOn,
                 hist>>


\* (mutant) the counter is advanced twice
NextCtr_Twice(c) == (c + 2) % CtrMod

\* (mutant) the counter is wider than 16 bits
NextCtr_NoWrap(c) == c + 1

\* ++imageCtr on a uint16_t
NextCtr(c) == (c + 1) % CtrMod

\* millis() - clickedMillis.  Both are unsigned long; millis() starts at 0
\* on reset and is followed up to MaxNow, far below 2^32, and clickedMillis
\* is an earlier reading of it, so the difference never wraps here.
Elapsed(t, since) == t - since

\* if (shutter.clicked()): clicked, so clickedMillis = millis() and the
\* Capture Transaction starts; or not clicked, so on to the sleep check.
ClickedAt(t) ==
  /\ pc = "clicked"
  /\ clicks < MaxClicks
  /\ clickedMillis' = t
  /\ pc' = "fb_get"
  /\ clicks' = clicks + 1
  /\ preCtr' = imageCtr
  /\ preStored' = eeprom
  /\ outcome' = "running"
  /\ txnFlashes' = 0 /\ storeWrites' = 0 /\ returned' = 0
  /\ txnCreated' = 0
  /\ sdAfterFlash' = FALSE
  /\ IF runN = 0
       THEN runC' = eeprom /\ runM' = imageCtr
       ELSE UNCHANGED <<runC, runM>>
  /\ UNCHANGED <<flashVars, fault, camVars, ctrVars, sdVars, now, shutterOn,
                 resets, eeprom0, files0, createdLog, createFails, wrapEver,
                 tornEver, failLog, runN>>

\* (mutant) the click is not stamped
Clicked_Stale == ClickedAt(clickedMillis)

\* if (shutter.clicked()) { clickedMillis = millis(); ...
Clicked == ClickedAt(now)

NotClicked ==
  /\ pc = "clicked"
  /\ pc' = "idle_check"
  /\ UNCHANGED <<flashVars, fault, camVars, ctrVars, sdVars, timeVars,
                 shutterOn, hist>>

\* camera_fb_t * fb = esp_camera_fb_get(): a frame, when the driver has a
\* buffer left to hand out.
FbGetOk ==
  /\ pc = "fb_get"
  /\ held < fbCount
  /\ fb' = TRUE
  /\ held' = held + 1
  /\ pc' = "path"
  /\ UNCHANGED <<flashVars, fault, fbCount, ctrVars, sdVars, timeVars,
                 shutterOn, hist>>

\* esp_camera_fb_get() gave no frame and loop() returns, the counter at c.
NoFrame(c) ==
  /\ pc = "fb_get"
  /\ pc' = "clicked"
  /\ imageCtr' = c
  /\ outcome' = "acquire_failed"
  /\ runN' = 0
  /\ UNCHANGED <<flashVars, fault, camVars, eepromBuf, eeprom, sdVars, timeVars,
                 shutterOn, lifeHist, runC, runM, preCtr, preStored,
                 txnFlashes, storeWrites, returned, txnCreated,
                 sdAfterFlash>>

\* (mutant) the counter is advanced before the frame is looked at
FbGetFail_Counted == NoFrame(NextCtr(imageCtr))

\* if (!fb) { ...; return; }
FbGetFail == NoFrame(imageCtr)

\* String path = "/Image" + String(++imageCtr) + ".jpg"
NameAfter(c) ==
  /\ pc = "path"
  /\ imageCtr' = NextCtr(c)
  /\ wrapEver' = (wrapEver \/ imageCtr' < imageCtr)
  /\ pc' = "open"
  /\ UNCHANGED <<flashVars, fault, camVars, eepromBuf, eeprom, sdVars,
                 timeVars, shutterOn, txnHist, runHist, clicks, resets,
                 eeprom0, files0, createdLog, createFails, tornEver, failLog>>

\* (mutant) the file is numbered after the stored counter
MakePath_FromStore == NameAfter(eepromBuf)

\* String path = "/Image" + String(++imageCtr) + ".jpg"
MakePath == NameAfter(imageCtr)

\* File file = SD_MMC.open(path.c_str(), FILE_WRITE): the file is created,
\* or cut to length 0 when it was there.
CreateFile(name) ==
  /\ pc = "open"
  /\ files' = files \cup {name}
  /\ written' = written \ {name}
  /\ file' = name
  /\ createdLog' = Append(createdLog, name)
  /\ txnCreated' = txnCreated + 1
  /\ sdAfterFlash' = (sdAfterFlash \/ SnapFlashOver)
  /\ pc' = "write"
  /\ UNCHANGED <<flashVars, fault, camVars, ctrVars, timeVars, shutterOn,
                 runHist, clicks, resets, eeprom0, files0, createFails, wrapEver,
                 tornEver, failLog, preCtr, preStored, outcome,
                 txnFlashes, storeWrites, returned>>

\* (mutant) the file is named after the counter before ++imageCtr
OpenOk_OldName == CreateFile(Path(preCtr))

\* SD_MMC.open(path, FILE_WRITE) gives a file
OpenOk == CreateFile(Path(imageCtr))

\* SD_MMC.open gave no file and loop() returns, the counter at c.
NoFile_Return(c) ==
  /\ pc = "open"
  /\ fb' = FALSE
  /\ pc' = "clicked"
  /\ imageCtr' = c
  /\ outcome' = "create_failed"
  /\ createFails' = createFails + 1
  /\ failLog' = Append(failLog, <<imageCtr, Len(createdLog), resets>>)
  /\ sdAfterFlash' = (sdAfterFlash \/ SnapFlashOver)
  /\ runN' = 0
  /\ UNCHANGED <<flashVars, fault, fbCount, held, eepromBuf, eeprom, sdVars,
                 timeVars, shutterOn, clicks, resets, eeprom0, files0,
                 createdLog,
                 wrapEver, tornEver, runC, runM, preCtr, preStored,
                 txnFlashes, storeWrites, returned, txnCreated>>

\* (mutant) the counter is put back when the file cannot be created
OpenFail_RolledBack == NoFile_Return(preCtr)

\* if (!file) { ...; return; }   fb goes out of scope, not returned.
OpenFail == NoFile_Return(imageCtr)

\* size_t sz = file.write(fb->buf, fb->len): sz is not looked at.
WriteThen(short) ==
  /\ pc = "write"
  /\ \E sz \in 0..FrameLen :
       /\ written' = IF sz = FrameLen THEN written \cup {file} ELSE written
       /\ pc' = IF sz = FrameLen THEN "writeUShort" ELSE short
  /\ sdAfterFlash' = (sdAfterFlash \/ SnapFlashOver)
  /\ UNCHANGED <<flashVars, fault, camVars, ctrVars, files, file, timeVars,
                 shutterOn, lifeHist, runHist, preCtr, preStored, outcome,
                 txnFlashes, storeWrites, returned, txnCreated>>

\* (mutant) loop() returns when fewer than fb->len bytes were written
WriteFile_ShortIsFault == WriteThen("clicked")

\* size_t sz = file.write(fb->buf, fb->len): sz is not looked at.
WriteFile == WriteThen("writeUShort")

\* EEPROM.writeUShort(IC_ADDR, v)
WriteUShort(v) ==
  /\ pc = "writeUShort"
  /\ eepromBuf' = v
  /\ storeWrites' = storeWrites + 1
  /\ pc' = "commit"
  /\ UNCHANGED <<flashVars, fault, camVars, imageCtr, eeprom, sdVars,
                 timeVars, shutterOn, lifeHist, runHist, preCtr, preStored,
                 outcome, txnFlashes, returned, txnCreated, sdAfterFlash>>

\* (mutant) the store's own value is advanced, not the counter written
EepromWrite_OwnCount == WriteUShort(NextCtr(eepromBuf))

\* EEPROM.writeUShort(IC_ADDR, imageCtr)
EepromWrite == WriteUShort(imageCtr)

\* EEPROM.commit()
EepromCommit ==
  /\ pc = "commit"
  /\ eeprom' = eepromBuf
  /\ storeWrites' = storeWrites + 1
  /\ pc' = "snap_flash"
  /\ UNCHANGED <<flashVars, fault, camVars, imageCtr, eepromBuf, sdVars,
                 timeVars, shutterOn, lifeHist, runHist, preCtr, preStored,
                 outcome, txnFlashes, returned, txnCreated, sdAfterFlash>>

\* flashBuiltinLed(SNAP_FLASH_COUNT)
SnapThen(ret) ==
  /\ pc = "snap_flash"
  /\ CallFlash(SNAP_FLASH_COUNT, ret)
  /\ UNCHANGED <<led, readySignals, fault, camVars, ctrVars, sdVars,
                 timeVars, shutterOn, lifeHist, runHist, txnHist>>

\* (mutant) the file is not closed after the flash
SnapFlash_SkipClose == SnapThen("fb_return")

SnapFlash == SnapThen("close")

\* file.close()
CloseFile ==
  /\ pc = "close"
  /\ file' = NoFile
  /\ sdAfterFlash' = (sdAfterFlash \/ SnapFlashOver)
  /\ pc' = "fb_return"
  /\ UNCHANGED <<flashVars, fault, camVars, ctrVars, files, written,
                 timeVars, shutterOn, lifeHist, runHist, preCtr, preStored,
                 outcome, txnFlashes, storeWrites, returned, txnCreated>>

\* esp_camera_fb_return(fb): the transaction is over.
FbReturn ==
  /\ pc = "fb_return"
  /\ held' = held - 1
  /\ fb' = FALSE
  /\ returned' = returned + 1
  /\ outcome' = "success"
  /\ runN' = runN + 1
  /\ pc' = "idle_check"
  /\ UNCHANGED <<flashVars, fault, fbCount, ctrVars, sdVars, timeVars,
                 shutterOn, lifeHist, runC, runM, preCtr, preStored,
                 txnFlashes, storeWrites, txnCreated, sdAfterFlash>>

\* if (millis() - clickedMillis > AWAKE_MILLIS)
\* The end of a pass of loop(): to sleep when idle holds, else poll again
SleepWhen(idle) ==
  /\ pc = "idle_check"
  /\ pc' = IF idle THEN "EEPROM_end" ELSE "clicked"
  /\ UNCHANGED <<flashVars, fault, camVars, ctrVars, sdVars, timeVars,
                 shutterOn, hist>>

\* (mutant) asleep as soon as AWAKE_MILLIS have passed
IdleCheck_AtThreshold ==
  SleepWhen(Elapsed(now, clickedMillis) >= AWAKE_MILLIS)

\* if (millis() - clickedMillis > AWAKE_MILLIS)
IdleCheck == SleepWhen(Elapsed(now, clickedMillis) > AWAKE_MILLIS)

\* EEPROM.end()
EepromEnd ==
  /\ pc = "EEPROM_end"
  /\ pc' = "sleep_flash"
  /\ UNCHANGED <<flashVars, fault, camVars, ctrVars, sdVars, timeVars,
                 shutterOn, hist>>

\* flashBuiltinLed() before sleeping
SleepFlash ==
  /\ pc = "sleep_flash"
  /\ CallFlash(WAVE_FLASH_COUNT, "deep_sleep")
  /\ UNCHANGED <<led, readySignals, fault, camVars, ctrVars, sdVars,
                 timeVars, shutterOn, lifeHist, runHist, txnHist>>

\* esp_deep_sleep_start(): does not return.
DeepSleep ==
  /\ pc = "deep_sleep"
  /\ pc' = "asleep"
  /\ UNCHANGED <<flashVars, fault, camVars, ctrVars, sdVars, timeVars,
                 shutterOn, hist>>

\* ------------------------------------------------------------ environment
\* Time passes while loop() waits for the shutter.
Tick ==
  /\ pc = "clicked"
  /\ now < MaxNow
  /\ now' = Min(now + TickMillis, MaxNow)
  /\ UNCHANGED <<pc, flashVars, fault, camVars, ctrVars, sdVars,
                 clickedMillis, shutterOn, hist>>

\* The reset button, a power cycle, or a power loss, at any point: RAM and
\* peripherals start over, the flash cell and the SD card stay as they are.
Reset ==
  /\ resets < MaxResets
  /\ resets' = resets + 1
  /\ pc' = "setup"
  /\ led' = "HIGH"
  /\ flashI' = 0 /\ flashCount' = 0 /\ flashLen' = 0 /\ flashRet' = "none"
  /\ lit' = 0 /\ readySignals' = 0
  /\ fault' = 0
  /\ fbCount' = 0 /\ held' = 0 /\ fb' = FALSE
  /\ imageCtr' = 0
  /\ eepromBuf' = 0
  /\ file' = NoFile
  /\ now' = 0 /\ clickedMillis' = 0
  /\ shutterOn' = FALSE
  /\ tornEver' = (tornEver \/ pc \in {"write", "writeUShort", "commit"})
  /\ runN' = IF InTxn THEN 0 ELSE runN
  /\ preCtr' = 0 /\ preStored' = 0
  /\ outcome' = "none"
  /\ txnFlashes' = 0 /\ storeWrites' = 0 /\ returned' = 0
  /\ txnCreated' = 0
  /\ sdAfterFlash' = FALSE
  /\ UNCHANGED <<eeprom, files, written, clicks, eeprom0, files0, createdLog,
                 createFails, wrapEver, runC, runM, failLog>>

Next ==
  \/ Setup \/ CameraInit \/ SdMount \/ CardType \/ FaultFlash \/ FaultDelay
  \/ EepromBegin \/ ReadCtr \/ ShutterBegin \/ ReadyFlash
  \/ FlashOn \/ FlashOff \/ FlashReturn
  \/ LoopInit \/ Clicked \/ NotClicked \/ FbGetOk \/ FbGetFail \/ MakePath
  \/ OpenOk \/ OpenFail \/ WriteFile \/ EepromWrite \/ EepromCommit
  \/ SnapFlash \/ CloseFile \/ FbReturn \/ IdleCheck
  \/ EepromEnd \/ SleepFlash \/ DeepSleep
  \/ Tick \/ Reset

Spec == Init /\ [][Next]_vars

\* A call of flashBuiltinLed with any arguments, and the program after the
\* reset that follows it
FlashSpec == FlashInit /\ [][Next]_vars

TypeOK ==
  /\ imageCtr \in 0..(CtrMod - 1)
  /\ eeprom \in 0..(CtrMod - 1)
  /\ held \in 0..2
  /\ led \in {"HIGH", "LOW"}


\* ================================================================ claims

\* Both store calls of the current/last transaction were made: its counter
\* is committed.
TxnCommitted == storeWrites = 2

\* C1, as claimed (the sum taken as a uint16_t): after the commit of a
\* Capture Transaction the persisted counter is the persisted counter from
\* before the transaction plus 1.
C1_AsClaimed == TxnCommitted => eeprom = (preStored + 1) % CtrMod

\* C1, amended: after the commit of a Capture Transaction the persisted
\* counter is the in-memory counter from before the transaction plus 1, as a
\* uint16_t.  (That is the persisted counter plus 1 only when no file
\* creation has failed since the counter was loaded or last committed.)
C1_CommitIsCounterPlusOne == TxnCommitted => eeprom = (preCtr + 1) % CtrMod

\* A transaction committed after an earlier one failed to create its file.
C1_Witness ==
  /\ TxnCommitted /\ outcome = "success"
  /\ preCtr = preStored + 1
  /\ eeprom = preStored + 2

\* The files were created in strictly increasing order of their numbers.
Increasing(log) ==
  \A i, j \in 1..Len(log) : i < j => Number(log[i]) < Number(log[j])

\* C2, as claimed (granted a counter that has not wrapped): every file
\* created has a new number, strictly higher than those of all files created
\* before it, whatever resets and power losses happened.
C2_AsClaimed == ~wrapEver => Increasing(createdLog)

\* C2, amended: every file created has a new number, strictly higher than
\* those of all files created before it, as long as no reset or power loss
\* has struck between a file's creation and the commit of its counter, and
\* the counter has not wrapped from 65535 to 0.
C2_NewHigherFile == (~tornEver /\ ~wrapEver) => Increasing(createdLog)

\* A file created after a reset and after a failed creation, with an older
\* file on the card.
C2_Witness ==
  /\ resets = 1 /\ createFails = 1 /\ txnCreated = 1
  /\ Len(createdLog) = 2
  /\ ~tornEver /\ ~wrapEver

\* C3: no frame is held when the main cycle is back at polling, and a
\* transaction that acquired a frame and ended has returned it exactly once.
C3_FrameReturned ==
  /\ pc \in {"clicked", "idle_check"} => held = 0
  /\ outcome \in {"success", "create_failed"} => returned = 1

\* The files of the current run of successful transactions, in order.
RunFiles == SubSeq(createdLog, Len(createdLog) - runN + 1, Len(createdLog))

\* The numbers c+1 .. c+n as uint16_t, in order.
After(c, n) == [k \in 1..n |-> (c + k) % CtrMod]

RunNumbers == [k \in 1..runN |-> Number(RunFiles[k])]

\* C4, as claimed (sums taken as uint16_t): N successful transactions in a
\* row, started with persisted counter C, created Image(C+1) .. Image(C+N),
\* in that order.
C4_AsClaimed == (~InTxn /\ runN >= 1) => RunNumbers = After(runC, runN)

\* C4, amended: N successful transactions in a row, started with in-memory
\* counter C, created Image(C+1) .. Image(C+N) (sums taken as uint16_t), in
\* that order.  (C is the persisted counter unless a file creation has
\* failed since the counter was loaded or last committed.)
C4_RunFromCounter == (~InTxn /\ runN >= 1) => RunNumbers = After(runM, runN)

\* Two successes in a row after a failed file creation.
C4_Witness == ~InTxn /\ runN = 2 /\ runM = runC + 1

\* C5: a transaction that fails to create its file ends with the persisted
\* counter as before, the in-memory counter one higher (as a uint16_t), no
\* call to the durable store, no flash, and the thread back at the poll of
\* the shutter.
C5_CreateFailure ==
  [][(outcome = "running" /\ outcome' = "create_failed") =>
       /\ eeprom' = preStored'
       /\ imageCtr' = (preCtr' + 1) % CtrMod
       /\ storeWrites' = 0 /\ eepromBuf' = eeprom'
       /\ txnFlashes' = 0 /\ led' = "HIGH"
       /\ pc' = "clicked"]_vars

\* A transaction has just failed to create its file.
C5_Witness ==
  /\ outcome = "create_failed" /\ pc = "clicked"
  /\ imageCtr = eeprom + 1

\* C6: a transaction that gets no frame ends with no file created, both
\* counters as before, no call to the durable store, no flash, and the
\* thread back at the poll of the shutter.
C6_AcquireFailure ==
  [][(outcome = "running" /\ outcome' = "acquire_failed") =>
       /\ txnCreated' = 0 /\ files' = files
       /\ imageCtr' = preCtr'
       /\ eeprom' = preStored'
       /\ storeWrites' = 0 /\ eepromBuf' = eeprom'
       /\ txnFlashes' = 0 /\ led' = "HIGH"
       /\ pc' = "clicked"]_vars

\* A transaction has just failed to get a frame, some time after boot: only
\* the time of the last click has moved.
C6_Witness ==
  /\ outcome = "acquire_failed" /\ pc = "clicked"
  /\ clickedMillis = now /\ now >= TickMillis

\* C7, as claimed: from a store holding 0 and an empty card, the persisted
\* counter is at most the number of files created and written in full.
C7_AsClaimed == eeprom0 = 0 => eeprom <= Cardinality(written)

\* C7, amended: from a store holding 0 and an empty card, the persisted
\* counter is at most the number of files created plus the number of file
\* creations that failed.
C7_StoredWithinAttempts ==
  eeprom0 = 0 => eeprom <= Cardinality(files) + createFails

\* The store holds 2 with a single file on the card.
C7_Witness ==
  /\ eeprom0 = 0 /\ eeprom = 2
  /\ Cardinality(files) = 1 /\ createFails = 1

\* C8: once the counter is loaded (polling or capturing), the in-memory
\* counter is at least the persisted counter.
C8_MemoryAtLeastStored ==
  (pc \in {"clicked", "idle_check"} \/ InTxn) => imageCtr >= eeprom

\* C9: the persisted counter never decreases.
C9_StoredNeverDecreases == [][eeprom' >= eeprom]_vars

\* C10: a Capture Transaction makes no call to the SD card after its
\* success flash.
C10_NoCardUseAfterFlash == ~sdAfterFlash


\* C11: the single success flash occurs if and only if the image was captured
\* and saved: whenever the 1-flash signal of a Capture Transaction has been
\* given, a frame was acquired, the file named after the in-memory counter was
\* created and the whole frame buffer is in it, and the durable store holds
\* that counter value; and a transaction that reached its end gave exactly
\* one such flash.
C11_FlashIffSaved ==
  /\ txnFlashes >= 1 =>
       /\ outcome = "success" => returned = 1
       /\ outcome = "running" => fb
       /\ Path(imageCtr) \in files
       /\ Path(imageCtr) \in written
       /\ eeprom = imageCtr
  /\ outcome = "success" => txnFlashes = SNAP_FLASH_COUNT

\* Inside one of the while (true) loops of setup()
InFaultLoop ==
  \/ pc \in {"fault_flash", "fault_delay"}
  \/ pc = "flash" /\ flashRet = "fault_delay"

\* One more step of such a loop
FaultLoopStep == FaultFlash \/ FaultDelay \/ FlashOn \/ FlashOff \/ FlashReturn

C12_State ==
  /\ fault # 0 <=> InFaultLoop
  /\ InFaultLoop =>
       /\ fault \in {CAMI_FLASH_COUNT, SDMI_FLASH_COUNT, SDCI_FLASH_COUNT}
       /\ pc = "flash" => flashCount = fault /\ lit <= fault
       /\ pc = "fault_delay" => lit = fault
       /\ ~shutterOn
       /\ imageCtr = 0 /\ eepromBuf = 0
       /\ readySignals = 0
       /\ outcome = "none"
       /\ ENABLED FaultLoopStep

C12_Step ==
  /\ (pc = "esp_camera_init" /\ pc' = "fault_flash") =>
       fault' = CAMI_FLASH_COUNT
  /\ (pc = "SD_MMC_begin" /\ pc' = "fault_flash") =>
       fault' = SDMI_FLASH_COUNT
  /\ (pc = "cardType" /\ pc' = "fault_flash") => fault' = SDCI_FLASH_COUNT
  /\ InFaultLoop =>
       /\ eeprom' = eeprom /\ files' = files /\ written' = written
       /\ clicks' = clicks
       /\ \/ InFaultLoop' /\ fault' = fault /\ resets' = resets
          \/ pc' = "setup" /\ fault' = 0 /\ resets' = resets + 1

\* C12: each bring-up failure enters a fault loop with its own signature
\* (camera 2 flashes per group, card mount 3, no card 4), the loop can always
\* go on, and inside it the shutter is never started or polled, the counter
\* is never loaded or written, no ready signal and no capture happens; only
\* a reset, which restarts setup(), leaves it.
C12_FaultLoopTerminal == []C12_State /\ [][C12_Step]_vars

C12_Witness ==
  /\ pc = "fault_delay" /\ fault = SDCI_FLASH_COUNT /\ lit = SDCI_FLASH_COUNT
  /\ resets = 0

\* On the way to deep sleep: from EEPROM.end() to esp_deep_sleep_start()
GoingToSleep ==
  \/ pc \in {"EEPROM_end", "sleep_flash", "deep_sleep"}
  \/ pc = "flash" /\ flashRet = "deep_sleep"

C13_State ==
  /\ GoingToSleep => ENABLED (EepromEnd \/ SleepFlash \/ FlashOn \/ FlashOff
                                \/ FlashReturn \/ DeepSleep)
  /\ (pc = "flash" /\ flashRet = "deep_sleep") =>
       flashCount = WAVE_FLASH_COUNT
  /\ pc \in {"deep_sleep", "asleep"} =>
       lit = WAVE_FLASH_COUNT /\ led = "HIGH"
  /\ (GoingToSleep \/ pc = "asleep") =>
       /\ Elapsed(now, clickedMillis) > AWAKE_MILLIS
       /\ file = NoFile

C13_Step ==
  /\ pc = "idle_check" =>
       \/ pc' = "setup"
       \/ pc' = IF Elapsed(now, clickedMillis) > AWAKE_MILLIS
                  THEN "EEPROM_end" ELSE "clicked"
  /\ pc = "EEPROM_end" => pc' \in {"sleep_flash", "setup"}
  /\ pc = "sleep_flash" =>
       \/ pc' = "setup"
       \/ pc' = "flash" /\ flashRet' = "deep_sleep" /\ lit' = 0
  /\ (pc = "flash" /\ flashRet = "deep_sleep") =>
       \/ pc' = "setup"
       \/ pc' = "flash" /\ flashRet' = "deep_sleep"
       \/ pc' = "deep_sleep"
  /\ pc = "deep_sleep" => pc' \in {"asleep", "setup"}
  /\ pc = "asleep" =>
       /\ pc' = "setup" /\ resets' = resets + 1
       /\ imageCtr' = 0 /\ ~shutterOn' /\ readySignals' = 0
  /\ (GoingToSleep \/ pc = "asleep") =>
       /\ eeprom' = eeprom /\ files' = files /\ written' = written
       /\ clicks' = clicks /\ createdLog' = createdLog

\* Time since the shutter was last seen clicked in this session, or since
\* boot when it has not been
SinceClickOrBoot == IF outcome = "none" THEN now ELSE now - clickedMillis

\* C13, as claimed: a pass of loop() that ends more than five minutes after
\* the last observed click, or after boot when there was none, goes on to
\* the shutdown (EEPROM.end(), 5-flash wave, deep sleep).
C13_AsClaimed ==
  [][(pc = "idle_check" /\ SinceClickOrBoot > AWAKE_MILLIS) =>
       pc' \in {"EEPROM_end", "setup"}]_vars

\* C13: when a pass of loop() finds that more than AWAKE_MILLIS have passed
\* since the shutter was last seen clicked (or since the timestamp was
\* first set), the device calls EEPROM.end(), gives the 5-flash wave and
\* enters deep sleep, in that order and not otherwise; from then on there is
\* no capture, no file creation and no write to the store, and the only
\* step left is a reset, which starts setup() from its beginning.
C13_IdleSleep == []C13_State /\ [][C13_Step]_vars

C13_Witness ==
  /\ pc = "asleep" /\ lit = WAVE_FLASH_COUNT /\ clicks >= 1
  /\ Cardinality(files) >= 1

\* loop() is polling and has seen no click since the last reset
NoClickYet == pc \in {"clicked", "idle_check"} /\ outcome = "none"

\* The time setup() takes: its ready flash
SetupMillis == (2 * Uint8(WAVE_FLASH_COUNT) - 1) * Uint8(FLASH_MILLIS)

C14_Step ==
  /\ (pc = "clicked" /\ pc' = "fb_get") =>
       clickedMillis' = now' /\ now' = now
  /\ (pc = "loop_init" /\ pc' = "clicked") =>
       clickedMillis' = now' /\ now' = now
  /\ clickedMillis' # clickedMillis =>
       \/ pc = "clicked" /\ pc' = "fb_get"
       \/ pc = "loop_init" /\ pc' = "clicked"
       \/ pc' = "setup"
  /\ pc' = "EEPROM_end" => Elapsed(now', clickedMillis') > AWAKE_MILLIS

C14_Slept ==
  (GoingToSleep \/ pc = "asleep") =>
     Elapsed(now, clickedMillis) > AWAKE_MILLIS

\* C14, as claimed: every observed click sets clickedMillis to the current
\* time as the first step of its transaction, whatever its outcome; the
\* device goes to sleep only when more than AWAKE_MILLIS have passed since
\* the last click; and until the first click the timestamp is the boot time
\* (millis() = 0).
C14_AsClaimed ==
  /\ [](C14_Slept /\ (NoClickYet => clickedMillis = 0))
  /\ [][C14_Step]_vars

\* C14: as above, but until the first click the timestamp is the time of
\* the first call of loop(), after setup() and its ready flash.
C14_StampedAtFirstPass ==
  /\ [](C14_Slept /\ (NoClickYet => clickedMillis = SetupMillis))
  /\ [][C14_Step]_vars

C14_Witness ==
  /\ pc = "clicked" /\ outcome = "create_failed"
  /\ clickedMillis = now /\ now > SetupMillis

\* setup() is past imageCtr = EEPROM.readUShort(IC_ADDR)
CtrLoaded ==
  /\ pc \notin {"setup", "esp_camera_init", "SD_MMC_begin", "cardType",
                 "EEPROM_begin", "readUShort"}
  /\ ~InFaultLoop

\* C15: setup() only reads the stored counter: no step of a session in
\* which no click has been observed yet, a reset included, changes the
\* stored counter, and once setup() has loaded the counter, imageCtr equals
\* the stored counter until the first click.
C15_SetupOnlyReads ==
  /\ []((CtrLoaded /\ outcome = "none") => imageCtr = eeprom)
  /\ [][outcome' = "none" => eeprom' = eeprom]_vars

C15_Witness ==
  /\ resets = 1 /\ pc = "clicked" /\ outcome = "none"
  /\ eeprom # eeprom0 /\ imageCtr = eeprom

\* The first capture that went through, in the first session of a device
\* whose store read 0 at power-on, has just ended.
FirstCaptureFromZero ==
  /\ eeprom0 = 0 /\ resets = 0
  /\ Len(createdLog) = 1 /\ outcome = "success"

Lit == IF led = "LOW" THEN 1 ELSE 0

\* Gaps waited by a call that has made k flashes and put the LED off again
Gaps(k) == IF k = 0 THEN 0 ELSE IF k < flashCount THEN k ELSE k - 1

\* The call of FlashInit is running or has returned
OwnCall == flashRet = "returned" /\ resets = 0

\* C17: flashBuiltinLed(flashCount, flashLen) lights the LED exactly
\* flashCount times, each time for flashLen ms, with flashLen ms of LED off
\* between two flashes and none after the last; it returns with the LED off,
\* never lights it when flashCount is 0, and the LED is off whenever no call
\* is running.
C17_FlashCountAndGaps ==
  /\ pc # "flash" => led = "HIGH"
  /\ pc = "flash" => lit = flashI + Lit /\ lit <= flashCount
  /\ (OwnCall /\ pc = "flash") =>
       now = IF led = "LOW" THEN (2 * flashI + 1) * flashLen
                            ELSE (flashI + Gaps(flashI)) * flashLen
  /\ (OwnCall /\ pc = "returned") =>
       /\ lit = flashCount
       /\ now = IF flashCount = 0 THEN 0
                                  ELSE (2 * flashCount - 1) * flashLen

C17_Witness ==
  /\ OwnCall /\ pc = "returned"
  /\ flashCount = MaxFlashCount /\ flashLen = 255
  /\ now = (2 * MaxFlashCount - 1) * 255

\* The steps of loop() between a click and the end of its transaction
TxnStep ==
  \/ FbGetOk \/ FbGetFail \/ MakePath \/ OpenOk \/ OpenFail \/ WriteFile
  \/ EepromWrite \/ EepromCommit \/ SnapFlash \/ FlashOn \/ FlashOff
  \/ FlashReturn \/ CloseFile \/ FbReturn

\* The device is waiting for the shutter
Ready == pc \in {"clicked", "idle_check"}

C18_State ==
  /\ InTxn => ENABLED TxnStep
  /\ pc \in {"write", "writeUShort", "commit", "snap_flash", "close"} =>
       fb /\ txnCreated = 1 /\ file = Path(imageCtr) /\ file \in files
  /\ pc \in {"fb_get", "path", "open", "write", "writeUShort", "commit",
              "snap_flash"} => txnFlashes = 0
  /\ pc \in {"close", "fb_return"} =>
       txnFlashes = SNAP_FLASH_COUNT /\ eeprom = imageCtr

C18_Step ==
  /\ clicks' # clicks =>
       pc = "clicked" /\ pc' = "fb_get" /\ clickedMillis' = now
  /\ pc' = "fb_get" => clicks' = clicks + 1
  /\ pc = "fb_get" =>
       \/ pc' = "path" /\ fb' /\ imageCtr' = imageCtr
       \/ pc' = "clicked"
       \/ pc' = "setup"
  /\ pc = "path" =>
       \/ pc' = "open" /\ imageCtr' = NextCtr(imageCtr) /\ files' = files
       \/ pc' = "setup"
  /\ pc = "open" =>
       \/ pc' = "write" /\ file' = Path(imageCtr) /\ file' \in files'
       \/ pc' = "clicked" /\ files' = files
       \/ pc' = "setup"
  /\ pc = "write" => pc' \in {"writeUShort", "setup"}
  /\ pc = "writeUShort" =>
       \/ pc' = "commit" /\ eepromBuf' = imageCtr
       \/ pc' = "setup"
  /\ pc = "commit" =>
       \/ pc' = "snap_flash" /\ eeprom' = imageCtr
       \/ pc' = "setup"
  /\ pc = "snap_flash" =>
       \/ /\ pc' = "flash" /\ flashRet' = "close"
          /\ flashCount' = SNAP_FLASH_COUNT
       \/ pc' = "setup"
  /\ (pc = "flash" /\ flashRet = "close") =>
       \/ pc' = "flash" /\ flashRet' = "close" /\ lit' + flashI' > lit + flashI
       \/ pc' = "close" /\ lit = SNAP_FLASH_COUNT
       \/ pc' = "setup"
  /\ pc = "close" =>
       \/ pc' = "fb_return" /\ file' = NoFile
       \/ pc' = "setup"
  /\ pc = "fb_return" =>
       \/ pc' = "idle_check" /\ held' = held - 1
       \/ pc' = "setup"
  /\ eeprom' # eeprom =>
       /\ pc = "commit" /\ eeprom' = imageCtr
       /\ txnCreated = 1 /\ file = Path(eeprom') /\ file \in files
  /\ (InTxn /\ ~InTxn') => Ready' \/ pc' = "setup"

ReadyFlashing ==
  pc = "ready_flash" \/ (pc = "flash" /\ flashRet = "loop_init")

\* setup() has returned
InLoop ==
  pc = "loop_init" \/ Ready \/ InTxn \/ GoingToSleep \/ pc = "asleep"

C19_State ==
  /\ InLoop => readySignals = 1 /\ shutterOn /\ fault = 0
  /\ ~InLoop => readySignals = 0 /\ outcome = "none"
  /\ ReadyFlashing => shutterOn /\ fault = 0 /\ CtrLoaded
  /\ shutterOn => CtrLoaded
  /\ (pc = "flash" /\ flashRet = "loop_init") =>
       flashCount = WAVE_FLASH_COUNT

C19_Step ==
  /\ pc = "setup" => pc' = "esp_camera_init" \/ pc' = "setup"
  /\ pc' = "esp_camera_init" => pc = "setup"
  /\ pc' = "SD_MMC_begin" => pc = "esp_camera_init" /\ fault' = 0
  /\ pc' = "cardType" => pc = "SD_MMC_begin" /\ fault' = 0
  /\ pc' = "EEPROM_begin" => pc = "cardType" /\ fault' = 0
  /\ pc' = "readUShort" => pc = "EEPROM_begin"
  /\ pc' = "shutter_begin" => pc = "readUShort"
  /\ pc' = "ready_flash" => pc = "shutter_begin" /\ shutterOn'
  /\ (ReadyFlashing' /\ ~ReadyFlashing) => pc = "shutter_begin"
  /\ pc' = "loop_init" =>
       ReadyFlashing /\ lit = WAVE_FLASH_COUNT /\ readySignals' = 1
  /\ fault' # fault => InFaultLoop' \/ pc' = "setup"
  /\ readySignals' # readySignals =>
       \/ pc' = "setup" /\ readySignals' = 0
       \/ pc' = "loop_init" /\ readySignals = 0
  /\ clicks' # clicks => readySignals = 1

\* C19: the stages of setup() gate one another: SD_MMC.begin only after
\* esp_camera_init succeeded, the card type check only after the mount
\* succeeded, EEPROM.begin, the counter load and shutter.begin only after a
\* card was found; the 5-flash ready signal is given exactly once between
\* two resets, after all of these and before loop() polls the shutter or
\* starts a transaction.
C19_StagesGate == []C19_State /\ [][C19_Step]_vars

C19_Witness ==
  /\ pc = "loop_init" /\ readySignals = 1 /\ lit = WAVE_FLASH_COUNT
  /\ shutterOn /\ resets = 1

\* The files created after the failed creation f (an entry of failLog)
CreatedAfter(f) == {createdLog[j] : j \in (f[2] + 1)..Len(createdLog)}

\* The failed creations
Failures == {failLog[i] : i \in 1..Len(failLog)}

\* C20, as claimed (the counter not having wrapped): a number used up by a
\* failed file creation is the number of no file created later, in the
\* same session or after a reset.
C20_AsClaimed ==
  ~wrapEver => \A f \in Failures : Digits(f[1]) \notin CreatedAfter(f)

\* C20: a number used up by a failed file creation is the number of no
\* file created later in the same session (between the same two resets).
C20_SkippedInSession ==
  \A f \in Failures : f[3] = resets => Digits(f[1]) \notin CreatedAfter(f)

C20_Witness ==
  \E f \in Failures :
     /\ f[3] = resets /\ outcome = "success"
     /\ CreatedAfter(f) = {Digits(NextCtr(f[1]))}

\* The file of the current/last transaction does not hold the whole frame
ShortWritten ==
  Path(imageCtr) \in files /\ Path(imageCtr) \notin written

C21_State ==
  ShortWritten =>
    /\ pc = "writeUShort" => ENABLED EepromWrite
    /\ pc = "commit" => eepromBuf = imageCtr /\ ENABLED EepromCommit
    /\ pc = "snap_flash" => eeprom = imageCtr /\ ENABLED SnapFlash
    /\ (pc = "flash" /\ flashRet = "close") =>
         /\ flashCount = SNAP_FLASH_COUNT
         /\ ENABLED (FlashOn \/ FlashOff \/ FlashReturn)
    /\ pc = "close" =>
         /\ txnFlashes = SNAP_FLASH_COUNT /\ file = Path(imageCtr)
         /\ ENABLED CloseFile
    /\ pc = "fb_return" => file = NoFile /\ fb /\ ENABLED FbReturn
    /\ outcome = "success" =>
         /\ eeprom = imageCtr /\ storeWrites = 2
         /\ txnFlashes = SNAP_FLASH_COUNT
         /\ file = NoFile /\ returned = 1 /\ ~fb

C21_Step ==
  /\ pc = "write" => pc' \in {"writeUShort", "setup"}
  /\ (ShortWritten' /\ pc' = "writeUShort") => pc = "write"

CtrMax == CtrMod - 1

\* The file created last
LastCreated == createdLog[Len(createdLog)]

C22_State ==
  /\ imageCtr \in 0..CtrMax /\ eeprom \in 0..CtrMax
  /\ (txnCreated = 1 /\ preCtr = CtrMax) =>
       /\ imageCtr = 0 /\ wrapEver
       /\ LastCreated = Digits(0) /\ Digits(0) \in files
  /\ (outcome = "success" /\ preCtr = CtrMax) => eeprom = 0
  /\ outcome = "success" =>
       /\ LastCreated = Digits(NextCtr(preCtr))
       /\ eeprom = NextCtr(preCtr)

C22_Step ==
  /\ (pc = "path" /\ imageCtr = CtrMax /\ pc' = "open") => imageCtr' = 0
  /\ (pc = "open" /\ imageCtr = 0 /\ pc' = "write") =>
       file' = Digits(0) /\ createdLog' = Append(createdLog, Digits(0))
  /\ (pc = "commit" /\ imageCtr = 0 /\ pc' = "snap_flash") => eeprom' = 0
  /\ (pc = "open" /\ pc' = "write" /\ Path(imageCtr) \in files) =>
       /\ file' = Path(imageCtr) /\ files' = files
       /\ Path(imageCtr) \notin written'

\* C22: the counter is a uint16_t: with imageCtr at 65535 the next
\* transaction that gets a frame makes it 0, names its file Image0.jpg and,
\* the file created, commits 0; the captures after it are numbered 1, 2, ...
\* again, and a file of that name already on the card is opened again and
\* cut to length 0.
C22_CounterWraps == []C22_State /\ [][C22_Step]_vars

C22_Witness ==
  /\ wrapEver /\ outcome = "success" /\ imageCtr = 1 /\ eeprom = 1
  /\ createdLog = <<Digits(CtrMax), Digits(0), Digits(1)>>
  /\ Digits(1) \in files0

====
